---- MODULE Spec2Model ----
(***************************************************************************)
(* The "ramjam" sparse demand-paged RAM disk of csluder/Linux_class:       *)
(*   block_driver/blk_modern.c  blk-mq handler + mmap fault handler        *)
(*   block_driver/blk_bio.c     bio handler    + mmap fault handler        *)
(*   mmap/mmap_fault.c          flat vmalloc buffer, handler without lock  *)
(* Memory is modelled byte by byte.  The kernel's PAGE_SHIFT (12) and      *)
(* SECTOR_SHIFT (9) are scaled down: a sector is 2^SECTOR_SHIFT bytes and  *)
(* a page holds two sectors.                                               *)
(***************************************************************************)
EXTENDS Integers, Sequences, FiniteSets, TLC

VARIABLES
    variant,        \* which driver is loaded: "modern", "bio" or "flat"
    ramjam_pages,   \* static unsigned int ramjam_pages (module parameter)
    pages,          \* ramjam_dev.pages: page index -> unit (NULL = Unallocated)
    mem,            \* content of every unit alloc_page has handed out
    refs,           \* struct page use-count of every unit
    vma,            \* the mapping of /dev/rramjam the user process holds, if any
    nops,           \* block transfers submitted so far
    nmaps,          \* mmap calls made so far
    nstores,        \* stores made through the mapping so far
    last,           \* the operation that completed last, with its result
    prevW,          \* the most recent write to the store (block or mapped)
    touched,        \* page indices some write has touched so far
    mutex,          \* ramjam_dev.mutex: 0 = free, else the context holding it
    ctx             \* the execution contexts inside a handler (concurrent view)

vars == <<variant, ramjam_pages, pages, mem, refs, vma, nops, nmaps, nstores,
          last, prevW, touched, mutex, ctx>>

----------------------------------------------------------------------------
\* Bounds of the model.

SECTOR_SHIFT == 1       \* log2 of the sector size in bytes (kernel: 9)
NumPages == 2           \* value of ramjam_pages at load time (default 262144)
MaxSegs == 3            \* segments (bio_vecs) of one block transfer
MaxOps == 2             \* block transfers per behaviour (block endpoint alone)
MaxMapOps == 1          \* block transfers per behaviour next to a mapping
MaxMaps == 2            \* mmap calls per behaviour
MaxMapsBlk == 1         \* mmap calls per behaviour that has block transfers
MaxStores == 1          \* stores through the mapping per behaviour
UintBits == 16          \* width of uint32_t, scaled down
NumCtx == 2             \* concurrent execution contexts
ConcMaxSegs == 2        \* segments of one transfer in the concurrent view
ConcMaxPages == 1       \* pages of data of one transfer in the concurrent view
LiveMaxSegs == 1        \* segments of one transfer where progress is checked

NULL == 0

PAGE_SHIFT == SECTOR_SHIFT + 1
PAGE_SIZE == 2 ^ PAGE_SHIFT
SECTOR_SIZE == 2 ^ SECTOR_SHIFT
MaxReqBytes == MaxSegs * PAGE_SIZE

U32(x) == x % (2 ^ UintBits)

Min(a, b) == IF a < b THEN a ELSE b

----------------------------------------------------------------------------
\* Data.  Byte 0 is what __GFP_ZERO and memzero_page produce.  Byte i of the
\* buffer of the transfer with tag t is Stamp(t, i), so every written byte
\* names its writer and its position; tag 0 is memory foreign to the store.

Stamp(t, i) == t * MaxReqBytes + i + 1
TagOf(b) == (b - 1) \div MaxReqBytes
ZeroPage == [k \in 1..PAGE_SIZE |-> 0]
Zeros(n) == [k \in 1..n |-> 0]
ForeignBytes == {0, Stamp(0, 0)}

\* struct bio_vec as bio_for_each_segment hands it out: one page at most,
\* bv_offset and bv_len multiples of the sector size (queue dma_alignment).
SectorsPerPage == PAGE_SIZE \div SECTOR_SIZE
Bvecs == { [bv_offset |-> x[1] * SECTOR_SIZE, bv_len |-> x[2] * SECTOR_SIZE] :
             x \in { y \in (0..SectorsPerPage - 1) \X (1..SectorsPerPage) :
                       y[1] + y[2] <= SectorsPerPage } }

RECURSIVE SumLen(_, _)
SumLen(segs, n) == IF n = 0 THEN 0 ELSE SumLen(segs, n - 1) + segs[n].bv_len
TotalLen(segs) == SumLen(segs, Len(segs))

\* Segment lists of a transfer: the total is a multiple of the logical block
\* size lbs, as the block layer guarantees.
SegLists(lbs, max) == { s \in UNION { [1..n -> Bvecs] : n \in 1..max } :
                          TotalLen(s) % lbs = 0 }

\* blk_modern.c and blk_bio.c set lim.logical_block_size = PAGE_SIZE.
SparseSegLists == SegLists(PAGE_SIZE, MaxSegs)
ConcSparseSegLists == { s \in SegLists(PAGE_SIZE, ConcMaxSegs) :
                          TotalLen(s) <= ConcMaxPages * PAGE_SIZE }
\* mmap_fault.c sets lim.logical_block_size = SECTOR_SIZE.
ConcFlatSegLists == { s \in SegLists(SECTOR_SIZE, ConcMaxSegs) :
                        TotalLen(s) <= ConcMaxPages * PAGE_SIZE }

SegData(rq, i) == SubSeq(rq.data, SumLen(rq.segs, i - 1) + 1, SumLen(rq.segs, i))

WriteData(t, n) == [j \in 1..n |-> Stamp(t, j - 1)]

----------------------------------------------------------------------------
\* The store: page table, unit contents, use-counts.

Store == [pages |-> pages, mem |-> mem, refs |-> refs]

\* alloc_page(GFP_KERNEL): without __GFP_ZERO the unit keeps its old content.
alloc_page_dirty(S, ok) ==
    IF ok
    THEN [S |-> [S EXCEPT !.mem = Append(@, [k \in 1..PAGE_SIZE |-> Stamp(0, 0)]),
                          !.refs = Append(@, 1)],
          page |-> Len(S.mem) + 1]
    ELSE [S |-> S, page |-> NULL]

\* alloc_page(GFP_KERNEL | __GFP_ZERO): a fresh zeroed unit, or NULL.
alloc_page(S, ok) ==
    IF ok
    THEN [S |-> [S EXCEPT !.mem = Append(@, ZeroPage), !.refs = Append(@, 1)],
          page |-> Len(S.mem) + 1]
    ELSE [S |-> S, page |-> NULL]

\* memcpy(kmap(page) + off, src, n).  Bytes past the end of the unit land in
\* the page frame that follows it: unit adj of the store, or foreign memory
\* (adj = NULL), whose content the model does not keep.
memcpy_to_unit(S, page, off, src, adj) ==
    [S EXCEPT !.mem = [u \in DOMAIN S.mem |->
        [k \in 1..PAGE_SIZE |->
            LET a == (IF u = page THEN k - 1 ELSE k - 1 + PAGE_SIZE) - off
            IN  IF (u = page \/ (u = adj /\ adj # page)) /\ a >= 0 /\ a < Len(src)
                THEN src[a + 1] ELSE S.mem[u][k]]]]

\* memcpy(dst, kmap(page) + off, n): the n bytes read.
memcpy_from_unit(S, page, off, n, adj, g) ==
    [j \in 1..n |->
        LET t == off + j - 1
        IN  IF t < PAGE_SIZE THEN S.mem[page][t + 1]
            ELSE IF adj # NULL /\ adj # page THEN S.mem[adj][t - PAGE_SIZE + 1]
            ELSE g]

----------------------------------------------------------------------------
\* Block handlers, step by step.  A frame F holds the store S as it stands
\* and the handler's locals L: the running position, the page index and
\* page pointer of the current segment, the bytes delivered so far (READ),
\* one record per segment processed and the store bytes written.

Locals(sector, pos) ==
    [pos |-> pos, sector |-> sector, pgoff |-> 0, page |-> NULL, need |-> FALSE,
     tried |-> FALSE, ret |-> "", out |-> <<>>, trace |-> <<>>, wr |-> {}]

SegRecord(L, dir, off, n) ==
    [pg |-> L.pgoff, page |-> L.page, off |-> off, len |-> n,
     failed |-> L.tried /\ L.page = NULL,
     allocated |-> L.tried /\ L.page # NULL,
     applied |-> dir = "WRITE" /\ L.page # NULL]

\* Store bytes <<unit, offset>> that memcpy_to_unit writes.
Written(page, off, n, adj) ==
    { <<page, k>> : k \in off..(Min(off + n, PAGE_SIZE) - 1) } \cup
    ( IF adj # NULL /\ adj # page
      THEN { <<adj, k - PAGE_SIZE>> : k \in PAGE_SIZE..(off + n - 1) }
      ELSE {} )

\* ramjam_get_page with "if (allocate)" for "if (!pages[pgoff] && allocate)".
get_page_lookup_unguarded(S, pgoff, allocate) ==
    IF pgoff >= ramjam_pages THEN [page |-> NULL, need |-> FALSE]
    ELSE [page |-> S.pages[pgoff], need |-> allocate]

\* ramjam_get_page with "if (!pages[pgoff])" for "if (!pages[pgoff] && allocate)".
get_page_lookup_any_dir(S, pgoff, allocate) ==
    IF pgoff >= ramjam_pages THEN [page |-> NULL, need |-> FALSE]
    ELSE [page |-> S.pages[pgoff], need |-> S.pages[pgoff] = NULL]

\* blk_modern.c: ramjam_get_page, the tests of lines 46 and 48
get_page_lookup(S, pgoff, allocate) ==
    IF pgoff >= ramjam_pages THEN [page |-> NULL, need |-> FALSE]
    ELSE [page |-> S.pages[pgoff], need |-> S.pages[pgoff] = NULL /\ allocate]

\* blk_modern.c: ramjam_get_page, the allocation of line 50 and the return
get_page_alloc(S, pgoff, ok) ==
    LET a == alloc_page(S, ok)
    IN  [S |-> [a.S EXCEPT !.pages[pgoff] = a.page], page |-> a.page]

\* blk_modern.c: ramjam_get_page(pgoff, allocate)
ramjam_get_page(S, pgoff, allocate, ok) ==
    LET t == get_page_lookup(S, pgoff, allocate)
    IN  IF t.need THEN get_page_alloc(S, pgoff, ok) ELSE [S |-> S, page |-> t.page]

\* blk_modern.c ramjam_queue_rq, line 72 and the call of line 73 up to the
\* test inside ramjam_get_page
queue_rq_lookup(F, rq, i) ==
    LET pgoff == U32(F.L.pos + rq.segs[i].bv_offset) \div PAGE_SIZE
        t == get_page_lookup(F.S, pgoff, rq.dir = "WRITE")
    IN  [F EXCEPT !.L.pgoff = pgoff, !.L.page = t.page, !.L.need = t.need,
                  !.L.tried = FALSE]

\* blk_modern.c ramjam_queue_rq, line 73: the allocation inside ramjam_get_page
queue_rq_alloc(F, ok) ==
    IF F.L.need
    THEN LET a == get_page_alloc(F.S, F.L.pgoff, ok)
         IN  [S |-> a.S,
              L |-> [F.L EXCEPT !.page = a.page, !.tried = TRUE, !.need = FALSE]]
    ELSE F

\* blk_modern.c ramjam_queue_rq, lines 76-89
queue_rq_copy(F, rq, i, adj, g) ==
    LET bvec == rq.segs[i]
        page == F.L.page
        off == F.L.pos % PAGE_SIZE
    IN  [S |-> IF page # NULL /\ rq.dir = "WRITE"
               THEN memcpy_to_unit(F.S, page, off, SegData(rq, i), adj)
               ELSE F.S,
         L |-> [F.L EXCEPT
                  !.pos = U32(@ + bvec.bv_len),
                  !.out = IF rq.dir = "READ"
                          THEN @ \o (IF page # NULL
                                     THEN memcpy_from_unit(F.S, page, off, bvec.bv_len,
                                                           adj, g)
                                     ELSE Zeros(bvec.bv_len))
                          ELSE @,
                  !.trace = Append(@, SegRecord(F.L, rq.dir, off, bvec.bv_len)),
                  !.wr = IF page # NULL /\ rq.dir = "WRITE"
                         THEN @ \cup Written(page, off, bvec.bv_len, adj) ELSE @]]

\* blk_modern.c: one iteration of rq_for_each_segment in ramjam_queue_rq
queue_rq_segment(F, rq, i, env) ==
    queue_rq_copy(queue_rq_alloc(queue_rq_lookup(F, rq, i), i \notin env.fail),
                  rq, i, env.adj, env.g)

\* ramjam_submit_bio with "if (bio_data_dir(bio) == WRITE && pg_idx <
\* ramjam_pages)" for the test of line 50: it allocates over a held entry.
submit_bio_lookup_unguarded(F, rq, i) ==
    LET pg_idx == U32((F.L.sector * SECTOR_SIZE) \div PAGE_SIZE)
        page == IF pg_idx < ramjam_pages THEN F.S.pages[pg_idx] ELSE NULL
    IN  [F EXCEPT !.L.pgoff = pg_idx, !.L.page = page,
                  !.L.need = (rq.dir = "WRITE" /\ pg_idx < ramjam_pages),
                  !.L.tried = FALSE]

\* blk_bio.c ramjam_submit_bio, lines 46-47
submit_bio_lookup(F, rq, i) ==
    LET pg_idx == U32((F.L.sector * SECTOR_SIZE) \div PAGE_SIZE)
        page == IF pg_idx < ramjam_pages THEN F.S.pages[pg_idx] ELSE NULL
    IN  [F EXCEPT !.L.pgoff = pg_idx, !.L.page = page,
                  !.L.need = (page = NULL /\ rq.dir = "WRITE"
                                /\ pg_idx < ramjam_pages),
                  !.L.tried = FALSE]

\* blk_bio.c ramjam_submit_bio, lines 50-53
submit_bio_alloc(F, ok) ==
    IF F.L.need
    THEN LET a == alloc_page(F.S, ok)
         IN  [S |-> [a.S EXCEPT !.pages[F.L.pgoff] = a.page],
              L |-> [F.L EXCEPT !.page = a.page, !.tried = TRUE, !.need = FALSE]]
    ELSE F

\* blk_bio.c ramjam_submit_bio, lines 55-71
submit_bio_copy(F, rq, i, adj, g) ==
    LET bvec == rq.segs[i]
        page == F.L.page
        off == bvec.bv_offset % PAGE_SIZE
    IN  [S |-> IF page # NULL /\ rq.dir = "WRITE"
               THEN memcpy_to_unit(F.S, page, off, SegData(rq, i), adj)
               ELSE F.S,
         L |-> [F.L EXCEPT
                  !.sector = @ + (bvec.bv_len \div SECTOR_SIZE),
                  !.out = IF rq.dir = "READ"
                          THEN @ \o (IF page # NULL
                                     THEN memcpy_from_unit(F.S, page, off, bvec.bv_len,
                                                           adj, g)
                                     ELSE Zeros(bvec.bv_len))
                          ELSE @,
                  !.trace = Append(@, SegRecord(F.L, rq.dir, off, bvec.bv_len)),
                  !.wr = IF page # NULL /\ rq.dir = "WRITE"
                         THEN @ \cup Written(page, off, bvec.bv_len, adj) ELSE @]]

\* blk_bio.c: one iteration of bio_for_each_segment in ramjam_submit_bio
submit_bio_segment(F, rq, i, env) ==
    submit_bio_copy(submit_bio_alloc(submit_bio_lookup(F, rq, i), i \notin env.fail),
                    rq, i, env.adj, env.g)

\* mmap_fault.c: one iteration of rq_for_each_segment in ramjam_queue_rq.
\* Byte b of dev->buffer is byte b % PAGE_SIZE of unit b \div PAGE_SIZE + 1;
\* a byte at or past dev->size is outside the buffer.
flat_queue_rq_segment(F, rq, i, g) ==
    LET bvec == rq.segs[i]
        pos == F.L.pos
        size == Len(F.S.mem) * PAGE_SIZE
        src == SegData(rq, i)
    IN  [S |-> IF rq.dir = "WRITE"
               THEN [F.S EXCEPT !.mem = [u \in DOMAIN F.S.mem |->
                        [k \in 1..PAGE_SIZE |->
                            LET a == (u - 1) * PAGE_SIZE + k - 1 - pos
                            IN  IF a >= 0 /\ a < bvec.bv_len THEN src[a + 1]
                                ELSE F.S.mem[u][k]]]]
               ELSE F.S,
         L |-> [F.L EXCEPT
                  !.pos = @ + bvec.bv_len,
                  !.pgoff = pos \div PAGE_SIZE,
                  !.page = IF pos < size THEN (pos \div PAGE_SIZE) + 1 ELSE NULL,
                  !.out = IF rq.dir = "READ"
                          THEN @ \o [j \in 1..bvec.bv_len |->
                                       LET b == pos + j - 1
                                       IN  IF b < size
                                           THEN F.S.mem[(b \div PAGE_SIZE) + 1][(b % PAGE_SIZE) + 1]
                                           ELSE g]
                          ELSE @,
                  !.trace = Append(@, [pg |-> pos \div PAGE_SIZE,
                                       page |-> IF pos < size
                                                THEN (pos \div PAGE_SIZE) + 1 ELSE NULL,
                                       off |-> pos % PAGE_SIZE, len |-> bvec.bv_len,
                                       failed |-> FALSE, allocated |-> FALSE,
                                       applied |-> rq.dir = "WRITE"]),
                  !.wr = IF rq.dir = "WRITE"
                         THEN @ \cup { <<(b \div PAGE_SIZE) + 1, b % PAGE_SIZE>> :
                                         b \in { x \in pos..(pos + bvec.bv_len - 1) :
                                                   x < size } }
                         ELSE @]]

RECURSIVE queue_rq_loop(_, _, _, _)
queue_rq_loop(F, rq, i, env) ==
    IF i > Len(rq.segs) THEN F
    ELSE queue_rq_loop(queue_rq_segment(F, rq, i, env), rq, i + 1, env)

RECURSIVE submit_bio_loop(_, _, _, _)
submit_bio_loop(F, rq, i, env) ==
    IF i > Len(rq.segs) THEN F
    ELSE submit_bio_loop(submit_bio_segment(F, rq, i, env), rq, i + 1, env)

----------------------------------------------------------------------------
\* What a completed operation leaves for the observer.

NoOp == [op |-> "none", sector |-> 0, segs |-> <<>>, len |-> 0, data |-> <<>>,
         status |-> "", trace |-> <<>>, pgoff |-> 0, page |-> NULL, byte |-> 0]
NoWrite == [kind |-> "none", byte |-> 0, data |-> <<>>, clean |-> TRUE, map |-> 0,
            vm_pgoff |-> 0]
NoVma == [pgoff |-> 0, npages |-> 0, pte |-> <<>>]
Idle == [pc |-> "idle"]

\* Page indices whose entry or unit content differs between two stores.
Changed(S0, S1) ==
    { p \in DOMAIN S1.pages :
        \/ S1.pages[p] # S0.pages[p]
        \/ S1.pages[p] # NULL /\ S1.mem[S1.pages[p]] # S0.mem[S0.pages[p]] }

\* Page indices of the byte range [byte, byte + n).
PagesOf(byte, n) == { b \div PAGE_SIZE : b \in byte..(byte + n - 1) }

AnyFailed(trace) == \E i \in DOMAIN trace : trace[i].failed

\* blk_mq_end_request(rq, status) / bio_endio(bio): the transfer is done.
EndRequest(rq, F, status) ==
    /\ pages' = F.S.pages
    /\ mem' = F.S.mem
    /\ refs' = F.S.refs
    /\ nops' = nops + 1
    /\ last' = [NoOp EXCEPT !.op = rq.dir, !.sector = rq.sector, !.segs = rq.segs,
                            !.len = TotalLen(rq.segs),
                            !.data = IF rq.dir = "WRITE" THEN rq.data ELSE F.L.out,
                            !.status = status, !.trace = F.L.trace]
    /\ prevW' = IF rq.dir = "WRITE"
                THEN [kind |-> "blk", byte |-> rq.sector * SECTOR_SIZE,
                      data |-> rq.data, clean |-> ~AnyFailed(F.L.trace), map |-> 0,
                      vm_pgoff |-> 0]
                ELSE prevW
    /\ touched' = IF rq.dir = "WRITE"
                  THEN touched \cup PagesOf(rq.sector * SECTOR_SIZE, TotalLen(rq.segs))
                               \cup Changed(Store, F.S)
                  ELSE touched
    /\ UNCHANGED <<variant, ramjam_pages, vma, nmaps, nstores, mutex, ctx>>

Request(dir, sector, segs) ==
    [dir |-> dir, sector |-> sector, segs |-> segs,
     data |-> IF dir = "WRITE" THEN WriteData(nops + 1, TotalLen(segs)) ELSE <<>>]

\* Start sectors the block layer hands over: aligned to the logical block
\* size, up to and including the end of the disk (set_capacity, from the
\* load-time value of ramjam_pages).
StartSectors(lbs) ==
    { x \in 0..(NumPages * SectorsPerPage) : (x * SECTOR_SIZE) % lbs = 0 }

\* blk_modern.c copies bv_len bytes at offset pos % PAGE_SIZE of the unit: the
\* copy leaves the unit when the two add up to more than a page.
Overruns(sector, segs) ==
    \E i \in 1..Len(segs) :
        ((sector * SECTOR_SIZE + SumLen(segs, i - 1)) % PAGE_SIZE) + segs[i].bv_len
            > PAGE_SIZE

Envs(dir, sector, segs) ==
    [fail : IF dir = "WRITE" THEN SUBSET (1..Len(segs)) ELSE {{}},
     adj : IF variant = "modern" /\ Overruns(sector, segs)
           THEN 0..Len(mem) ELSE {NULL},
     g : IF variant = "modern" /\ dir = "READ" /\ Overruns(sector, segs)
         THEN ForeignBytes ELSE {0}]

\* blk_modern.c: ramjam_queue_rq, the whole handler
ramjam_queue_rq(dir, sector, segs, env) ==
    /\ variant = "modern"
    /\ nops < MaxOps
    /\ LET rq == Request(dir, sector, segs)
           F0 == [S |-> Store, L |-> Locals(sector, U32(sector * SECTOR_SIZE))]
       IN  EndRequest(rq, queue_rq_loop(F0, rq, 1, env), "BLK_STS_OK")

\* blk_bio.c: ramjam_submit_bio, the whole handler
ramjam_submit_bio(dir, sector, segs, env) ==
    /\ variant = "bio"
    /\ nops < MaxOps
    /\ LET rq == Request(dir, sector, segs)
           F0 == [S |-> Store, L |-> Locals(sector, 0)]
       IN  EndRequest(rq, submit_bio_loop(F0, rq, 1, env), "BLK_STS_OK")

----------------------------------------------------------------------------
\* The mapping endpoint.

\* blk_modern.c: ramjam_mmap
ramjam_mmap(pgoff, npages) == "0"

\* rramjam_mmap with ">=" for ">" in the test of line 121.
rramjam_mmap_strict(pgoff, npages) ==
    IF pgoff * PAGE_SIZE + npages * PAGE_SIZE >= ramjam_pages * PAGE_SIZE
    THEN "-EINVAL" ELSE "0"

\* blk_bio.c: rramjam_mmap
rramjam_mmap(pgoff, npages) ==
    IF pgoff * PAGE_SIZE + npages * PAGE_SIZE > ramjam_pages * PAGE_SIZE
    THEN "-EINVAL" ELSE "0"

\* An mmap that populates the first page of the range at once.
Mmap_eager(pgoff, npages) ==
    /\ vma = NoVma
    /\ nmaps < MaxMaps
    /\ LET ret == IF variant = "modern" THEN ramjam_mmap(pgoff, npages)
                  ELSE rramjam_mmap(pgoff, npages)
           a == IF pgoff < ramjam_pages /\ pages[pgoff] = NULL
                THEN get_page_alloc(Store, pgoff, TRUE)
                ELSE [S |-> Store, page |-> NULL]
       IN  /\ vma' = IF ret = "0"
                     THEN [pgoff |-> pgoff, npages |-> npages,
                           pte |-> [k \in 1..npages |-> NULL]]
                     ELSE vma
           /\ last' = [NoOp EXCEPT !.op = "mmap", !.status = ret, !.pgoff = pgoff,
                                   !.len = npages * PAGE_SIZE]
           /\ pages' = a.S.pages
           /\ mem' = a.S.mem
           /\ refs' = a.S.refs
    /\ nmaps' = nmaps + 1
    /\ UNCHANGED <<variant, ramjam_pages, nops, nstores, prevW, touched, mutex, ctx>>

\* mmap_fault.c: ramjam_mmap
flat_ramjam_mmap(pgoff, npages) == "0"

\* remap_vmalloc_range(vma, addr, pgoff): maps the pages of the vmalloc area
\* from its page pgoff on into the whole vma, taking a reference on each;
\* -EINVAL when the vma is longer than what is left of the area.
remap_vmalloc_range(S, npages, pgoff) ==
    IF pgoff + npages > Len(S.mem)
    THEN [ret |-> "-EINVAL", S |-> S, pte |-> <<>>]
    ELSE [ret |-> "0",
          S |-> [S EXCEPT !.refs = [u \in DOMAIN S.refs |->
                    IF u > pgoff /\ u <= pgoff + npages THEN S.refs[u] + 1
                    ELSE S.refs[u]]],
          pte |-> [k \in 1..npages |-> pgoff + k]]

\* mmap_nofault.c: ramjam_mmap, line 94: the page offset it passes is 0, not
\* vma->vm_pgoff.
nofault_ramjam_mmap(S, vm_pgoff, npages) == remap_vmalloc_range(S, npages, 0)

\* The .mmap handler of the variant: its return value, the store it leaves
\* and the pages it installs (none where a fault handler is attached).
mmap_handler(S, pgoff, npages) ==
    LET lazy(ret) == [ret |-> ret, S |-> S, pte |-> [k \in 1..npages |-> NULL]]
    IN  CASE variant = "modern" -> lazy(ramjam_mmap(pgoff, npages))
          [] variant = "bio" -> lazy(rramjam_mmap(pgoff, npages))
          [] variant = "flat" -> lazy(flat_ramjam_mmap(pgoff, npages))
          [] variant = "nofault" -> nofault_ramjam_mmap(S, pgoff, npages)

\* mmap(2) on /dev/rramjam
Mmap(pgoff, npages) ==
    /\ vma = NoVma
    /\ nmaps < MaxMaps
    /\ LET m == mmap_handler(Store, pgoff, npages)
       IN  /\ vma' = IF m.ret = "0"
                     THEN [pgoff |-> pgoff, npages |-> npages, pte |-> m.pte]
                     ELSE vma
           /\ refs' = m.S.refs
           /\ last' = [NoOp EXCEPT !.op = "mmap", !.status = m.ret, !.pgoff = pgoff,
                                   !.len = npages * PAGE_SIZE]
    /\ nmaps' = nmaps + 1
    /\ UNCHANGED <<variant, ramjam_pages, pages, mem, nops, nstores, prevW,
                   touched, mutex, ctx>>

\* get_page(page)
get_page_twice(S, page) == [S EXCEPT !.refs[page] = @ + 2]

\* get_page(page)
get_page(S, page) == [S EXCEPT !.refs[page] = @ + 1]

\* blk_modern.c ramjam_vma_fault, line 108 up to the test in ramjam_get_page
vma_fault_lookup(F, pgoff) ==
    LET t == get_page_lookup(F.S, pgoff, TRUE)
    IN  [F EXCEPT !.L.pgoff = pgoff, !.L.page = t.page, !.L.need = t.need,
                  !.L.tried = FALSE]

\* blk_modern.c ramjam_vma_fault, lines 109-118
vma_fault_return(F) ==
    IF F.L.page = NULL
    THEN [F EXCEPT !.L.ret = "VM_FAULT_SIGBUS"]
    ELSE [S |-> get_page(F.S, F.L.page), L |-> [F.L EXCEPT !.ret = "0"]]

\* blk_modern.c: ramjam_vma_fault
ramjam_vma_fault(S, pgoff, ok) ==
    LET F0 == [S |-> S, L |-> Locals(0, 0)]
        F == vma_fault_return(queue_rq_alloc(vma_fault_lookup(F0, pgoff), ok))
    IN  [S |-> F.S, page |-> IF F.L.ret = "0" THEN F.L.page ELSE NULL, ret |-> F.L.ret]

\* blk_bio.c ramjam_vm_fault, lines 87-94
vm_fault_lookup(F, pgoff) ==
    LET pg_idx == U32(pgoff)
    IN  IF pg_idx >= ramjam_pages
        THEN [F EXCEPT !.L.pgoff = pg_idx, !.L.page = NULL, !.L.need = FALSE,
                       !.L.ret = "VM_FAULT_SIGBUS"]
        ELSE [F EXCEPT !.L.pgoff = pg_idx, !.L.page = F.S.pages[pg_idx],
                       !.L.need = (F.S.pages[pg_idx] = NULL), !.L.tried = FALSE]

\* blk_bio.c ramjam_vm_fault, lines 97-104
vm_fault_alloc(F, ok) ==
    IF F.L.need
    THEN LET a == alloc_page(F.S, ok)
         IN  IF a.page = NULL
             THEN [F EXCEPT !.L.page = NULL, !.L.tried = TRUE, !.L.need = FALSE,
                            !.L.ret = "VM_FAULT_OOM"]
             ELSE [S |-> [a.S EXCEPT !.pages[F.L.pgoff] = a.page],
                   L |-> [F.L EXCEPT !.page = a.page, !.tried = TRUE,
                                     !.need = FALSE]]
    ELSE F

\* blk_bio.c ramjam_vm_fault, lines 106-110
vm_fault_return(F) ==
    IF F.L.ret # "" THEN F
    ELSE [S |-> get_page(F.S, F.L.page), L |-> [F.L EXCEPT !.ret = "0"]]

\* blk_bio.c: ramjam_vm_fault
ramjam_vm_fault(S, pgoff, ok) ==
    LET F0 == [S |-> S, L |-> Locals(0, 0)]
        F == vm_fault_return(vm_fault_alloc(vm_fault_lookup(F0, pgoff), ok))
    IN  [S |-> F.S, page |-> IF F.L.ret = "0" THEN F.L.page ELSE NULL, ret |-> F.L.ret]

\* mmap_fault.c: ramjam_vma_fault.  vmf->address - vma->vm_start is a whole
\* number of pages, so offset = vmf->pgoff << PAGE_SHIFT; the page behind
\* byte offset of the vmalloc buffer is unit offset \div PAGE_SIZE + 1.
flat_vma_fault(F, pgoff) ==
    LET offset == pgoff * PAGE_SIZE
        size == Len(F.S.mem) * PAGE_SIZE
        page == (offset \div PAGE_SIZE) + 1
    IN  IF offset >= size
        THEN [F EXCEPT !.L.pgoff = pgoff, !.L.page = NULL,
                       !.L.ret = "VM_FAULT_SIGBUS"]
        ELSE [S |-> get_page(F.S, page),
              L |-> [F.L EXCEPT !.pgoff = pgoff, !.page = page, !.ret = "0"]]

\* First access to page k of the mapping: the kernel calls the fault handler
\* with vmf->pgoff = vm_pgoff + k and installs the page it hands back.
Fault(k, ok) ==
    /\ k \in 1..vma.npages
    /\ vma.pte[k] = NULL
    /\ LET pgoff == vma.pgoff + k - 1
           f == CASE variant = "modern" -> ramjam_vma_fault(Store, pgoff, ok)
                  [] variant = "bio" -> ramjam_vm_fault(Store, pgoff, ok)
                  [] variant = "flat" ->
                        LET F == flat_vma_fault([S |-> Store, L |-> Locals(0, 0)],
                                                pgoff)
                        IN  [S |-> F.S, page |-> F.L.page, ret |-> F.L.ret]
       IN  /\ pages' = f.S.pages
           /\ mem' = f.S.mem
           /\ refs' = f.S.refs
           /\ vma' = [vma EXCEPT !.pte[k] = f.page]
           /\ last' = [NoOp EXCEPT !.op = "fault", !.status = f.ret, !.pgoff = pgoff,
                                   !.page = f.page]
    /\ UNCHANGED <<variant, ramjam_pages, nops, nmaps, nstores, prevW, touched,
                   mutex, ctx>>

\* block_driver/test.c: memcpy(map + offset, buf, cnt), one byte of it
MappedStore(k, off) ==
    /\ nstores < MaxStores
    /\ k \in 1..vma.npages
    /\ vma.pte[k] # NULL
    /\ LET b == Stamp(MaxOps + 1 + nstores, off)
           p == vma.pgoff + k - 1
       IN  /\ mem' = [mem EXCEPT ![vma.pte[k]][off + 1] = b]
           /\ prevW' = [kind |-> "map", byte |-> p * PAGE_SIZE + off, data |-> <<b>>,
                        clean |-> TRUE, map |-> nmaps, vm_pgoff |-> vma.pgoff]
           /\ touched' = touched \cup {p}
           /\ last' = [NoOp EXCEPT !.op = "store", !.pgoff = p, !.page = vma.pte[k],
                                   !.data = <<b>>]
    /\ nstores' = nstores + 1
    /\ UNCHANGED <<variant, ramjam_pages, pages, refs, vma, nops, nmaps, mutex, ctx>>

\* block_driver/test.c: memcpy(buf2, map + offset, cnt), one byte of it
MappedLoad(k, off) ==
    /\ k \in 1..vma.npages
    /\ vma.pte[k] # NULL
    /\ LET p == vma.pgoff + k - 1
       IN  last' = [NoOp EXCEPT !.op = "load", !.pgoff = p, !.page = vma.pte[k],
                                !.byte = p * PAGE_SIZE + off,
                                !.data = <<mem[vma.pte[k]][off + 1]>>]
    /\ UNCHANGED <<variant, ramjam_pages, pages, mem, refs, vma, nops, nmaps, nstores,
                   prevW, touched, mutex, ctx>>

\* A munmap that leaves the references of the installed pages in place.
Munmap_noput ==
    /\ vma # NoVma
    /\ vma' = NoVma
    /\ last' = [NoOp EXCEPT !.op = "munmap"]
    /\ UNCHANGED <<variant, ramjam_pages, pages, mem, refs, nops, nmaps, nstores,
                   prevW, touched, mutex, ctx>>

\* A munmap that gives the unit of every installed page back: the entry is
\* cleared and the unit freed.
Munmap_release ==
    /\ vma # NoVma
    /\ refs' = [u \in DOMAIN refs |->
                  IF \E k \in 1..vma.npages : vma.pte[k] = u THEN 0 ELSE refs[u]]
    /\ pages' = [i \in DOMAIN pages |->
                   IF pages[i] # NULL /\ \E k \in 1..vma.npages : vma.pte[k] = pages[i]
                   THEN NULL ELSE pages[i]]
    /\ vma' = NoVma
    /\ last' = [NoOp EXCEPT !.op = "munmap"]
    /\ UNCHANGED <<variant, ramjam_pages, mem, nops, nmaps, nstores, prevW,
                   touched, mutex, ctx>>

\* block_driver/test.c: munmap(map, ...): every installed page is put
Munmap ==
    /\ vma # NoVma
    /\ refs' = [u \in DOMAIN refs |->
                  refs[u] - Cardinality({k \in 1..vma.npages : vma.pte[k] = u})]
    /\ vma' = NoVma
    /\ last' = [NoOp EXCEPT !.op = "munmap"]
    /\ UNCHANGED <<variant, ramjam_pages, pages, mem, nops, nmaps, nstores, prevW,
                   touched, mutex, ctx>>

----------------------------------------------------------------------------
\* The sparse store, one handler at a time (ramjam_dev.mutex serialises them).

Init ==
    /\ variant \in {"modern", "bio"}
    /\ ramjam_pages = NumPages
    /\ pages = [p \in 0..(NumPages - 1) |-> NULL]
    /\ mem = <<>>
    /\ refs = <<>>
    /\ vma = NoVma
    /\ nops = 0
    /\ nmaps = 0
    /\ nstores = 0
    /\ last = NoOp
    /\ prevW = NoWrite
    /\ touched = {}
    /\ mutex = 0
    /\ ctx = [c \in 1..NumCtx |-> Idle]

\* Block endpoint alone: MaxOps transfers.
NextBlk ==
    \/ \E dir \in {"READ", "WRITE"}, sector \in StartSectors(PAGE_SIZE),
          segs \in SparseSegLists :
          \E env \in Envs(dir, sector, segs) : ramjam_queue_rq(dir, sector, segs, env)
    \/ \E dir \in {"READ", "WRITE"}, sector \in StartSectors(PAGE_SIZE),
          segs \in SparseSegLists :
          \E env \in Envs(dir, sector, segs) : ramjam_submit_bio(dir, sector, segs, env)

SpecBlk == Init /\ [][NextBlk]_vars

\* Both endpoints: the mapping's life cycle around MaxMapOps transfers.
Next ==
    \/ /\ nops < MaxMapOps
       /\ \E dir \in {"READ", "WRITE"}, sector \in StartSectors(PAGE_SIZE),
             segs \in SparseSegLists :
             \E env \in Envs(dir, sector, segs) :
                \/ ramjam_queue_rq(dir, sector, segs, env)
                \/ ramjam_submit_bio(dir, sector, segs, env)
    \/ /\ nmaps < MaxMapsBlk
       /\ \E pgoff \in 0..ramjam_pages, npages \in 1..ramjam_pages : Mmap(pgoff, npages)
    \/ \E k \in 1..vma.npages, ok \in BOOLEAN : Fault(k, ok)
    \/ \E k \in 1..vma.npages, off \in 0..(PAGE_SIZE - 1) : MappedStore(k, off)
    \/ Munmap

Spec == Init /\ [][Next]_vars

\* The mapping endpoint alone, in the four variants: MaxMaps mappings one
\* after the other over the same store.
InitMap ==
    /\ variant \in {"modern", "bio", "flat", "nofault"}
    /\ ramjam_pages = NumPages
    /\ pages = [p \in 0..(NumPages - 1) |->
                  IF variant \in {"flat", "nofault"} THEN p + 1 ELSE NULL]
    /\ mem = IF variant \in {"flat", "nofault"} THEN [u \in 1..NumPages |-> ZeroPage]
             ELSE <<>>
    /\ refs = IF variant \in {"flat", "nofault"} THEN [u \in 1..NumPages |-> 1]
              ELSE <<>>
    /\ vma = NoVma
    /\ nops = 0
    /\ nmaps = 0
    /\ nstores = 0
    /\ last = NoOp
    /\ prevW = NoWrite
    /\ touched = {}
    /\ mutex = 0
    /\ ctx = [c \in 1..NumCtx |-> Idle]

NextMap ==
    \/ \E pgoff \in 0..ramjam_pages, npages \in 1..ramjam_pages : Mmap(pgoff, npages)
    \/ \E k \in 1..vma.npages, ok \in BOOLEAN : Fault(k, ok)
    \/ \E k \in 1..vma.npages, off \in 0..(PAGE_SIZE - 1) : MappedStore(k, off)
    \/ \E k \in 1..vma.npages, off \in 0..(PAGE_SIZE - 1) : MappedLoad(k, off)
    \/ Munmap

SpecMap == InitMap /\ [][NextMap]_vars

\* module_param(ramjam_pages, uint, 0644): a write to
\* /sys/module/<module>/parameters/ramjam_pages stores v in the variable the
\* handlers read.  Only values below the load-time value are written here;
\* a larger one makes every index test admit indices past the table.
ParamWrite(v) ==
    /\ ramjam_pages = NumPages
    /\ v < NumPages
    /\ ramjam_pages' = v
    /\ last' = [NoOp EXCEPT !.op = "param"]
    /\ UNCHANGED <<variant, pages, mem, refs, vma, nops, nmaps, nstores, prevW,
                   touched, mutex, ctx>>

NextParam ==
    \/ Next
    \/ \E v \in 0..NumPages : ParamWrite(v)

\* The two endpoints and the module parameter.
SpecParam == Init /\ [][NextParam]_vars

----------------------------------------------------------------------------
\* A device larger than a 32-bit byte offset can address.

\* ramjam_pages is an unsigned int: the module loads with any capacity up to
\* 2^32 - 1 pages.  WrapPages is the smallest capacity whose last page
\* starts at byte 2^32 (2^UintBits in the model).
WrapPages == (2 ^ UintBits) \div PAGE_SIZE + 1
\* The first page of the device, the last page below byte 2^32 and the page
\* at byte 2^32.
WrapSectors ==
    {0, (2 ^ UintBits) \div SECTOR_SIZE - SectorsPerPage, (2 ^ UintBits) \div SECTOR_SIZE}

InitWrap ==
    /\ variant \in {"modern", "bio"}
    /\ ramjam_pages = WrapPages
    /\ pages = [p \in 0..(WrapPages - 1) |-> NULL]
    /\ mem = <<>>
    /\ refs = <<>>
    /\ vma = NoVma
    /\ nops = 0
    /\ nmaps = 0
    /\ nstores = 0
    /\ last = NoOp
    /\ prevW = NoWrite
    /\ touched = {}
    /\ mutex = 0
    /\ ctx = [c \in 1..NumCtx |-> Idle]

\* One transfer on the fresh device.
NextWrap ==
    \/ /\ nops < MaxMapOps
       /\ \E dir \in {"READ", "WRITE"}, sector \in WrapSectors,
             segs \in SegLists(PAGE_SIZE, ConcMaxSegs) :
             \E env \in Envs(dir, sector, segs) : ramjam_queue_rq(dir, sector, segs, env)
    \/ /\ nops < MaxMapOps
       /\ \E dir \in {"READ", "WRITE"}, sector \in WrapSectors,
             segs \in SegLists(PAGE_SIZE, ConcMaxSegs) :
             \E env \in Envs(dir, sector, segs) : ramjam_submit_bio(dir, sector, segs, env)

\* The block endpoint of a device of WrapPages pages.
SpecWrap == InitWrap /\ [][NextWrap]_vars

----------------------------------------------------------------------------
\* Teardown: rmmod runs ramjam_exit.

\* A release that frees the unit whatever its use-count (free of the memory
\* instead of a put of the reference).
free_page_forced(S, page) == [S EXCEPT !.refs[page] = 0]

\* __free_page(page): drops one reference; the unit is freed when its
\* use-count reaches 0.
free_page(S, page) == [S EXCEPT !.refs[page] = @ - 1]

\* blk_modern.c 236-238, blk_bio.c 249-250: the loop from index i on.  Its
\* bound is the ramjam_pages of the moment.
RECURSIVE exit_loop(_, _)
exit_loop(S, i) ==
    IF i >= ramjam_pages THEN S
    ELSE exit_loop(IF S.pages[i] # NULL THEN free_page(S, S.pages[i]) ELSE S, i + 1)

\* blk_modern.c, blk_bio.c: ramjam_exit.  The devices and the disk go, the
\* loop releases the units, vfree releases the table.  The character device's
\* fops name THIS_MODULE as owner, so an open mapping keeps a plain rmmod
\* away; a forced unload runs ramjam_exit all the same, and munmap is the
\* one operation left on the mapping after it.
ramjam_exit ==
    /\ variant \in {"modern", "bio"}
    /\ variant' = "unloaded"
    /\ refs' = exit_loop(Store, 0).refs
    /\ pages' = <<>>
    /\ last' = [NoOp EXCEPT !.op = "exit"]
    /\ UNCHANGED <<ramjam_pages, mem, vma, nops, nmaps, nstores, prevW, touched,
                   mutex, ctx>>

NextLife ==
    \/ variant # "unloaded" /\ NextParam
    \/ ramjam_exit
    \/ variant = "unloaded" /\ Munmap

\* The life of the module: load, both endpoints, the parameter, unload.
SpecLife == Init /\ [][NextLife]_vars

----------------------------------------------------------------------------
\* Concurrent view: every context runs one handler, a step at a time.

\* A handler that enters without waiting for the mutex.
mutex_lock_absent(c) == mutex' = c

\* mutex_lock(&ramjam_dev.mutex)
mutex_lock(c) == mutex = 0 /\ mutex' = c

\* A handler that returns without releasing the mutex.
mutex_unlock_absent(c) == mutex' = mutex

\* mutex_unlock(&ramjam_dev.mutex)
mutex_unlock(c) == mutex' = 0

Busy(c) == \E d \in 1..NumCtx : d # c /\ ctx[d].pc \notin {"idle", "done"}

\* Contexts are interchangeable: they enter their handlers in index order.
InOrder(c) == IF c = 1 THEN TRUE ELSE ctx[c - 1].pc # "idle"

ConcFrame(c) == [S |-> Store, L |-> ctx[c].L]

\* The step of context c leaves frame F and goes on at pc with segment i.
Step(c, F, pc, i) ==
    /\ pages' = F.S.pages
    /\ mem' = F.S.mem
    /\ refs' = F.S.refs
    /\ ctx' = [ctx EXCEPT ![c].L = F.L, ![c].pc = pc, ![c].i = i]
    /\ UNCHANGED <<variant, ramjam_pages, vma, nops, nmaps, nstores, last, prevW,
                   touched>>

\* The block layer hands a transfer to the handler (blk_modern.c 60-65,
\* blk_bio.c 37-40, mmap_fault.c 25-32).
SubmitBlk(c, dir, sector, segs) ==
    /\ ctx[c].pc = "idle"
    /\ InOrder(c)
    /\ ctx' = [ctx EXCEPT ![c] =
                 [pc |-> IF variant # "flat" THEN "lock"
                         ELSE IF Len(segs) = 0 THEN "end" ELSE "copy",
                  rq |-> [dir |-> dir, sector |-> sector, segs |-> segs,
                          data |-> IF dir = "WRITE" THEN WriteData(c, TotalLen(segs))
                                   ELSE <<>>,
                          pgoff |-> 0],
                  i |-> 1, overlapped |-> Busy(c),
                  L |-> Locals(sector, IF variant = "modern"
                                       THEN U32(sector * SECTOR_SIZE)
                                       ELSE sector * SECTOR_SIZE)]]
    /\ UNCHANGED <<variant, ramjam_pages, pages, mem, refs, vma, nops, nmaps, nstores,
                   last, prevW, touched, mutex>>

\* A mapped address is touched: the kernel calls the fault handler.
SubmitFault(c, pgoff) ==
    /\ ctx[c].pc = "idle"
    /\ InOrder(c)
    /\ ctx' = [ctx EXCEPT ![c] =
                 [pc |-> IF variant = "flat" THEN "f_flat" ELSE "f_lock",
                  rq |-> [dir |-> "FAULT", sector |-> 0, segs |-> <<>>, data |-> <<>>,
                          pgoff |-> pgoff],
                  i |-> 1, overlapped |-> Busy(c), L |-> Locals(0, 0)]]
    /\ UNCHANGED <<variant, ramjam_pages, pages, mem, refs, vma, nops, nmaps, nstores,
                   last, prevW, touched, mutex>>

\* blk_modern.c 67-68, blk_bio.c 42
HandlerLock(c) ==
    /\ ctx[c].pc = "lock"
    /\ mutex_lock(c)
    /\ Step(c, ConcFrame(c), IF Len(ctx[c].rq.segs) = 0 THEN "unlock" ELSE "lookup", 1)

\* blk_modern.c 72-73 (entering ramjam_get_page), blk_bio.c 46-47
SegLookup(c) ==
    /\ ctx[c].pc = "lookup"
    /\ LET F == IF variant = "modern"
                THEN queue_rq_lookup(ConcFrame(c), ctx[c].rq, ctx[c].i)
                ELSE submit_bio_lookup(ConcFrame(c), ctx[c].rq, ctx[c].i)
       IN  Step(c, F, IF F.L.need THEN "alloc" ELSE "copy", ctx[c].i)
    /\ UNCHANGED mutex

\* blk_modern.c 50, blk_bio.c 51-52
SegAlloc(c, ok) ==
    /\ ctx[c].pc = "alloc"
    /\ LET F == IF variant = "modern" THEN queue_rq_alloc(ConcFrame(c), ok)
                ELSE submit_bio_alloc(ConcFrame(c), ok)
       IN  Step(c, F, "copy", ctx[c].i)
    /\ UNCHANGED mutex

\* blk_modern.c 76-89, blk_bio.c 55-71, mmap_fault.c 34-40
SegCopy(c, adj, g) ==
    /\ ctx[c].pc = "copy"
    /\ LET rq == ctx[c].rq
           i == ctx[c].i
           F == CASE variant = "modern" -> queue_rq_copy(ConcFrame(c), rq, i, adj, g)
                  [] variant = "bio" -> submit_bio_copy(ConcFrame(c), rq, i, adj, g)
                  [] OTHER -> flat_queue_rq_segment(ConcFrame(c), rq, i, g)
       IN  Step(c, F,
                IF i < Len(rq.segs)
                THEN (IF variant = "flat" THEN "copy" ELSE "lookup")
                ELSE (IF variant = "flat" THEN "end" ELSE "unlock"),
                i + 1)
    /\ UNCHANGED mutex

\* What the copy step of context c may find behind and around the unit.
CopyAdj(c) ==
    IF variant = "modern"
         /\ (ctx[c].L.pos % PAGE_SIZE) + ctx[c].rq.segs[ctx[c].i].bv_len > PAGE_SIZE
    THEN 0..Len(mem) ELSE {NULL}
CopyForeign(c) ==
    IF ctx[c].rq.dir = "READ"
         /\ \/ variant = "modern"
               /\ (ctx[c].L.pos % PAGE_SIZE) + ctx[c].rq.segs[ctx[c].i].bv_len
                     > PAGE_SIZE
            \/ variant = "flat"
               /\ ctx[c].L.pos + ctx[c].rq.segs[ctx[c].i].bv_len > Len(mem) * PAGE_SIZE
    THEN ForeignBytes ELSE {0}

\* blk_modern.c 92, blk_bio.c 73
HandlerUnlock(c) ==
    /\ ctx[c].pc = "unlock"
    /\ mutex_unlock(c)
    /\ Step(c, ConcFrame(c), "end", ctx[c].i)

\* A handler that returns without completing the transfer.
HandlerEnd_silent(c) ==
    /\ ctx[c].pc = "end"
    /\ Step(c, ConcFrame(c), "done", ctx[c].i)
    /\ UNCHANGED mutex

\* blk_modern.c 93-94, blk_bio.c 74, mmap_fault.c 42-43
HandlerEnd(c) ==
    /\ ctx[c].pc = "end"
    /\ Step(c, [ConcFrame(c) EXCEPT !.L.ret = "BLK_STS_OK"], "done", ctx[c].i)
    /\ UNCHANGED mutex

\* A fault handler that goes to its lookup without taking the mutex.
FaultLock_nolock(c) ==
    /\ ctx[c].pc = "f_lock"
    /\ Step(c, ConcFrame(c), "f_lookup", ctx[c].i)
    /\ UNCHANGED mutex

\* blk_modern.c 105, blk_bio.c 87-93: blk_bio.c tests the index before it
\* takes the mutex.
FaultLock(c) ==
    /\ ctx[c].pc = "f_lock"
    /\ IF variant = "bio" /\ U32(ctx[c].rq.pgoff) >= ramjam_pages
       THEN /\ Step(c, [ConcFrame(c) EXCEPT !.L.ret = "VM_FAULT_SIGBUS"], "done",
                    ctx[c].i)
            /\ UNCHANGED mutex
       ELSE /\ mutex_lock(c)
            /\ Step(c, ConcFrame(c), "f_lookup", ctx[c].i)

\* blk_modern.c 108 (entering ramjam_get_page), blk_bio.c 94-97
FaultLookup(c) ==
    /\ ctx[c].pc = "f_lookup"
    /\ LET F == IF variant = "modern"
                THEN vma_fault_lookup(ConcFrame(c), ctx[c].rq.pgoff)
                ELSE vm_fault_lookup(ConcFrame(c), ctx[c].rq.pgoff)
       IN  Step(c, F, IF F.L.need THEN "f_alloc" ELSE "f_ret", ctx[c].i)
    /\ UNCHANGED mutex

\* blk_modern.c 50, blk_bio.c 98-103
FaultAlloc(c, ok) ==
    /\ ctx[c].pc = "f_alloc"
    /\ LET F == IF variant = "modern" THEN queue_rq_alloc(ConcFrame(c), ok)
                ELSE vm_fault_alloc(ConcFrame(c), ok)
       IN  Step(c, F, "f_ret", ctx[c].i)
    /\ UNCHANGED mutex

\* A fault handler whose error return leaves out the mutex_unlock.
FaultReturn_leaky(c) ==
    /\ ctx[c].pc = "f_ret"
    /\ LET F == IF variant = "modern" THEN vma_fault_return(ConcFrame(c))
                ELSE vm_fault_return(ConcFrame(c))
       IN  /\ IF F.L.ret = "0" THEN mutex_unlock(c) ELSE UNCHANGED mutex
           /\ Step(c, F, "done", ctx[c].i)

\* blk_modern.c 109-118, blk_bio.c 99-110: the use-count, the unlock, the return
FaultReturn(c) ==
    /\ ctx[c].pc = "f_ret"
    /\ mutex_unlock(c)
    /\ LET F == IF variant = "modern" THEN vma_fault_return(ConcFrame(c))
                ELSE vm_fault_return(ConcFrame(c))
       IN  Step(c, F, "done", ctx[c].i)

\* mmap_fault.c 51-80: the flat fault handler takes no lock.
FlatFault(c) ==
    /\ ctx[c].pc = "f_flat"
    /\ Step(c, flat_vma_fault(ConcFrame(c), ctx[c].rq.pgoff), "done", ctx[c].i)
    /\ UNCHANGED mutex

\* vmf->pgoff of a fault: the pages of the table, the first index past it,
\* and the first index a 32-bit variable cannot hold (a mapping can reach it:
\* blk_modern.c and mmap_fault.c accept any range, and none of the three
\* sets VM_DONTEXPAND, so mremap can grow an accepted mapping).
FaultIndices == (0..ramjam_pages) \cup {2 ^ UintBits}

InitConc ==
    /\ variant \in {"modern", "bio", "flat"}
    /\ ramjam_pages = NumPages
    /\ pages = [p \in 0..(NumPages - 1) |-> IF variant = "flat" THEN p + 1 ELSE NULL]
    /\ mem = IF variant = "flat" THEN [u \in 1..NumPages |-> ZeroPage] ELSE <<>>
    /\ refs = IF variant = "flat" THEN [u \in 1..NumPages |-> 1] ELSE <<>>
    /\ vma = NoVma
    /\ nops = 0
    /\ nmaps = 0
    /\ nstores = 0
    /\ last = NoOp
    /\ prevW = NoWrite
    /\ touched = {}
    /\ mutex = 0
    /\ ctx = [c \in 1..NumCtx |-> Idle]

NextConc ==
    \E c \in 1..NumCtx :
        \/ \E dir \in {"READ", "WRITE"},
              sector \in StartSectors(IF variant = "flat" THEN SECTOR_SIZE
                                      ELSE PAGE_SIZE),
              segs \in (IF variant = "flat" THEN ConcFlatSegLists
                        ELSE ConcSparseSegLists) \cup {<<>>} :
              SubmitBlk(c, dir, sector, segs)
        \/ \E pgoff \in FaultIndices : SubmitFault(c, pgoff)
        \/ HandlerLock(c)
        \/ SegLookup(c)
        \/ \E ok \in BOOLEAN : SegAlloc(c, ok)
        \/ /\ ctx[c].pc = "copy"
           /\ \E adj \in CopyAdj(c), g \in CopyForeign(c) : SegCopy(c, adj, g)
        \/ HandlerUnlock(c)
        \/ HandlerEnd(c)
        \/ FaultLock(c)
        \/ FaultLookup(c)
        \/ \E ok \in BOOLEAN : FaultAlloc(c, ok)
        \/ FaultReturn(c)
        \/ FlatFault(c)

SpecConc == InitConc /\ [][NextConc]_vars

\* A context inside a handler goes on: the CPU runs it, and the mutex is
\* handed to a waiter once it is free.
Proceed(c) ==
    \/ HandlerLock(c)
    \/ SegLookup(c)
    \/ \E ok \in BOOLEAN : SegAlloc(c, ok)
    \/ /\ ctx[c].pc = "copy"
       /\ \E adj \in CopyAdj(c), g \in CopyForeign(c) : SegCopy(c, adj, g)
    \/ HandlerUnlock(c)
    \/ HandlerEnd(c)
    \/ FaultLock(c)
    \/ FaultLookup(c)
    \/ \E ok \in BOOLEAN : FaultAlloc(c, ok)
    \/ FaultReturn(c)
    \/ FlatFault(c)

\* The concurrent view with shorter transfers, every context going on.
LiveSegLists ==
    { s \in (IF variant = "flat" THEN ConcFlatSegLists ELSE ConcSparseSegLists) :
        Len(s) <= LiveMaxSegs } \cup {<<>>}

NextLive ==
    \E c \in 1..NumCtx :
        \/ \E dir \in {"READ", "WRITE"},
              sector \in StartSectors(IF variant = "flat" THEN SECTOR_SIZE
                                      ELSE PAGE_SIZE),
              segs \in LiveSegLists :
              SubmitBlk(c, dir, sector, segs)
        \/ \E pgoff \in FaultIndices : SubmitFault(c, pgoff)
        \/ Proceed(c)

SpecConcFair ==
    InitConc /\ [][NextLive]_vars /\ \A c \in 1..NumCtx : WF_vars(Proceed(c))

----------------------------------------------------------------------------
\* Claims about the block endpoint and the two endpoints together.

CapacityBytes == ramjam_pages * PAGE_SIZE
LastByte == last.sector * SECTOR_SIZE
LastIsTransfer == last.op \in {"READ", "WRITE"}
LastOutOfRange == LastIsTransfer /\ LastByte + last.len > CapacityBytes
AllocCount == Cardinality({ p \in DOMAIN pages : pages[p] # NULL })
\* The page the data of segment j of the last transfer belongs to.
SegPage(j) == (LastByte + SumLen(last.segs, j - 1)) \div PAGE_SIZE

\* C1: a block read of exactly the range of the block write before it, with
\* no write in between and the write's allocations all successful, returns
\* the bytes written, whatever the segment layouts of the two transfers.
C1_RoundTrip ==
    ( /\ last.op = "READ"
      /\ prevW.kind = "blk" /\ prevW.clean
      /\ prevW.byte = LastByte /\ Len(prevW.data) = last.len
      /\ LastByte + last.len <= CapacityBytes )
    => last.data = prevW.data

\* C2: a block read whose range lies in pages no write has touched returns
\* zero bytes only, whether those pages are Unallocated or were allocated by
\* a fault.
C2_ZeroFill ==
    ( /\ last.op = "READ"
      /\ LastByte + last.len <= CapacityBytes
      /\ PagesOf(LastByte, last.len) \cap touched = {} )
    => \A i \in 1..Len(last.data) : last.data[i] = 0

\* C3: the byte a block write put at device offset o is at offset
\* o mod PAGE_SIZE of the unit a later fault on page o div PAGE_SIZE hands
\* back; the byte stored through the mapping at offset k of page p is the
\* byte a later block read returns for device offset p * PAGE_SIZE + k.
C3_CrossEndpoint ==
    /\ ( /\ last.op = "fault" /\ last.status = "0"
         /\ prevW.kind = "blk" /\ prevW.clean
         /\ prevW.byte + Len(prevW.data) <= CapacityBytes )
       => \A i \in 1..Len(prevW.data) :
             LET o == prevW.byte + i - 1
             IN  o \div PAGE_SIZE = last.pgoff
                    => mem[last.page][(o % PAGE_SIZE) + 1] = prevW.data[i]
    /\ ( /\ last.op = "READ"
         /\ prevW.kind = "map"
         /\ LastByte + last.len <= CapacityBytes
         /\ prevW.byte \in LastByte..(LastByte + last.len - 1) )
       => last.data[prevW.byte - LastByte + 1] = prevW.data[1]

\* C4: a block transfer with offset + length > capacity_bytes is completed
\* with a failure status, never as a success.
C4_BoundaryRejection == LastOutOfRange => last.status # "BLK_STS_OK"

\* C5: a block write with offset + length > capacity_bytes changes neither
\* the set of allocated pages nor any stored byte.
C5_NoPartialApply ==
    [][ (nops' = nops + 1 /\ last'.op = "WRITE"
            /\ last'.sector * SECTOR_SIZE + last'.len > CapacityBytes)
        => (pages' = pages /\ mem' = mem) ]_vars

\* C8: the number of Allocated entries never exceeds capacity_pages and no
\* operation makes it smaller.
C8_AllocMonotone ==
    [][ AllocCount' >= AllocCount /\ AllocCount' <= ramjam_pages' ]_vars

\* C8 witness: an allocation failed while an entry was Allocated, and a
\* mapping has been torn down since.
C8_Witness ==
    /\ AllocCount >= 1
    /\ last.op = "WRITE" /\ AnyFailed(last.trace)
    /\ nmaps = MaxMapsBlk /\ vma = NoVma

\* C9: a block write during which an allocation failed is completed with a
\* failure status.
C9_AllocFailureReported ==
    (last.op = "WRITE" /\ AnyFailed(last.trace)) => last.status # "BLK_STS_OK"

\* C10: when a block write has applied a segment to page p and the
\* allocation for page p + 1, where the next segment's data belongs, then
\* fails, page p + 1 is still Unallocated after the transfer and no segment
\* after the failed one has been applied.
C10_AbortAfterFailure ==
    \A f \in 1..Len(last.trace) :
        ( /\ last.op = "WRITE"
          /\ last.trace[f].failed
          /\ \A j \in 1..(f - 1) : ~last.trace[j].failed
          /\ \A j \in 1..f : last.trace[j].pg = SegPage(j)
          /\ \E j \in 1..(f - 1) :
                last.trace[j].applied /\ last.trace[j].pg + 1 = last.trace[f].pg )
        => /\ pages[last.trace[f].pg] = NULL
           /\ \A j \in (f + 1)..Len(last.trace) : ~last.trace[j].applied

----------------------------------------------------------------------------
\* Claims about concurrent contexts.

Done(c) == ctx[c].pc = "done"
Writers == { c \in 1..NumCtx : Done(c) /\ ctx[c].rq.dir = "WRITE" }
WritersOf(u) == { c \in Writers : \E a \in ctx[c].L.wr : a[1] = u }
\* The bytes of unit u that every writer of u wrote.
CommonBytes(u) ==
    { k \in 0..(PAGE_SIZE - 1) : \A c \in WritersOf(u) : <<u, k>> \in ctx[c].L.wr }

\* C6: when two or more block writes to one page have completed, the bytes
\* of the page that all of them wrote come from one single writer, in the
\* sparse variants and in the flat one alike.
C6_PageSerialization ==
    (\A c \in 1..NumCtx : Done(c))
    => \A u \in DOMAIN mem :
          Cardinality(WritersOf(u)) >= 2
          => Cardinality({ TagOf(mem[u][k + 1]) : k \in CommonBytes(u) }) <= 1

\* C7: every unit ever allocated is the unit of exactly one page index, and
\* each completed operation that found a unit for a page used the unit the
\* table holds for that page.
C7_SingleAllocation ==
    /\ Len(mem) = AllocCount
    /\ \A c \in 1..NumCtx :
          Done(c) =>
             /\ (ctx[c].rq.dir = "FAULT" /\ ctx[c].L.ret = "0")
                   => pages[ctx[c].L.pgoff] = ctx[c].L.page
             /\ \A j \in 1..Len(ctx[c].L.trace) :
                   ctx[c].L.trace[j].page # NULL
                     => pages[ctx[c].L.trace[j].pg] = ctx[c].L.trace[j].page

\* C7 witness: a fault and a block write that ran at the same time met the
\* same page; one of them allocated its unit and both used it.
C7_Witness ==
    \E c \in 1..NumCtx, d \in 1..NumCtx :
        /\ c # d /\ Done(c) /\ Done(d)
        /\ variant # "flat"
        /\ ctx[c].overlapped \/ ctx[d].overlapped
        /\ ctx[c].rq.dir = "FAULT" /\ ctx[c].L.ret = "0"
        /\ ctx[d].rq.dir = "WRITE"
        /\ \E j \in 1..Len(ctx[d].L.trace) :
              /\ ctx[d].L.trace[j].applied
              /\ ctx[d].L.trace[j].pg = ctx[c].L.pgoff
              /\ ctx[d].L.trace[j].page = ctx[c].L.page
        /\ Len(mem) = 1

----------------------------------------------------------------------------
\* Claims about faults, mapping establishment and the lookup.

AllocSet == { p \in DOMAIN pages : pages[p] # NULL }

\* C11: a fault on a page of the table that fails, which only a failed
\* allocation can cause, returns the no-memory error (not the access
\* violation of an out-of-range fault) and leaves the entry Unallocated.
C11_FaultNoMemory ==
    (last.op = "fault" /\ last.pgoff < ramjam_pages /\ last.status # "0")
    => (last.status = "VM_FAULT_OOM" /\ pages[last.pgoff] = NULL)

\* C14: an mmap whose range ends beyond capacity_bytes is rejected by the
\* mmap call itself and records no mapping.
C14_MmapValidated ==
    (last.op = "mmap" /\ last.pgoff * PAGE_SIZE + last.len > CapacityBytes)
    => (last.status # "0" /\ vma = NoVma)

\* C15: an mmap call, accepted or rejected, changes no table entry, no unit
\* content and no use-count.
C15_MmapAllocatesNothing ==
    [][ (nmaps' = nmaps + 1) => (pages' = pages /\ mem' = mem /\ refs' = refs) ]_vars

\* C15 witness: an mmap was accepted while the table held an Allocated and
\* an Unallocated entry.
C15_Witness ==
    /\ last.op = "mmap" /\ last.status = "0"
    /\ AllocSet # {} /\ AllocSet # DOMAIN pages

\* C16: a block read leaves the set of Allocated entries and the number of
\* units as they were.
C16_ReadsNeverAllocate ==
    [][ (nops' = nops + 1 /\ last'.op = "READ")
        => ( /\ { p \in DOMAIN pages' : pages'[p] # NULL } = AllocSet
             /\ Len(mem') = Len(mem) ) ]_vars

\* C16 witness: a read met an Unallocated page of the table while another
\* page was Allocated.
C16_Witness ==
    /\ last.op = "READ"
    /\ AllocSet # {}
    /\ \E j \in 1..Len(last.trace) :
          last.trace[j].pg < ramjam_pages /\ last.trace[j].page = NULL

\* C17: for an Unallocated entry p, the result of ramjam_get_page tells
\* apart "no unit, none requested", "index out of range" and "allocation
\* failed".
C17_DistinctOutcomes ==
    \A p \in DOMAIN pages :
        pages[p] = NULL =>
            LET nounit == ramjam_get_page(Store, p, FALSE, TRUE).page
                range == ramjam_get_page(Store, ramjam_pages, TRUE, TRUE).page
                nomem == ramjam_get_page(Store, p, TRUE, FALSE).page
            IN  nounit # range /\ nounit # nomem /\ range # nomem

----------------------------------------------------------------------------
\* Claims about the handlers' paths, step by step.

InHandler(c) == ctx[c].pc \notin {"idle", "done"}
IsFault(c) == ctx[c].rq.dir = "FAULT"
FaultDone(c) == Done(c) /\ IsFault(c)

\* C12: the step on which a fault fails, and the failed allocation before
\* it, change no table entry, no unit content and no use-count, and the
\* failed fault does not return holding the mutex.
C12_FailedFaultHarmless ==
    [][ \A c \in 1..NumCtx :
          (InHandler(c) /\ IsFault(c)) =>
             /\ (ctx'[c].pc = "done" /\ ctx'[c].L.ret # "0")
                   => (pages' = pages /\ mem' = mem /\ refs' = refs /\ mutex' # c)
             /\ (ctx[c].pc = "f_alloc" /\ ctx'[c].pc = "f_ret"
                   /\ ctx'[c].L.page = NULL)
                   => (pages' = pages /\ mem' = mem /\ refs' = refs) ]_vars

\* C12 witness: a fault on a page of the table failed for want of memory,
\* and a later fault on the same page succeeded.
C12_Witness ==
    \E c \in 1..NumCtx, d \in 1..NumCtx :
        /\ c # d /\ FaultDone(c) /\ FaultDone(d)
        /\ ctx[c].rq.pgoff < ramjam_pages /\ ctx[c].L.ret # "0"
        /\ ctx[d].rq.pgoff = ctx[c].rq.pgoff /\ ctx[d].L.ret = "0"
        /\ mutex = 0

\* C13: a fault whose page index is at or beyond capacity_pages ends with
\* SIGBUS and hands back no unit.
C13_FaultOutOfRange ==
    \A c \in 1..NumCtx :
        (FaultDone(c) /\ ctx[c].rq.pgoff >= ramjam_pages)
        => (ctx[c].L.ret = "VM_FAULT_SIGBUS" /\ ctx[c].L.page = NULL)

\* C19: a block transfer is completed by one single step, taken when its
\* handler does not hold the mutex, and that step ends the handler; a
\* handler that has ended has completed its transfer; every transfer handed
\* to a handler is completed in the end.
C19_CompletedOnce ==
    /\ [][ \A c \in 1..NumCtx :
             (InHandler(c) /\ ~IsFault(c) /\ ctx'[c].L.ret # ctx[c].L.ret)
             => ( /\ ctx[c].L.ret = ""
                  /\ mutex # c /\ mutex' # c
                  /\ ctx'[c].pc = "done" ) ]_vars
    /\ [](\A c \in 1..NumCtx : (Done(c) /\ ~IsFault(c)) => ctx[c].L.ret # "")
    /\ \A c \in 1..NumCtx :
          (InHandler(c) /\ ~IsFault(c)) ~> (Done(c) /\ ctx[c].L.ret # "")

\* C19 witness: a write with a failed allocation and a transfer without
\* segments have both been completed.
C19_Witness ==
    \E c \in 1..NumCtx, d \in 1..NumCtx :
        /\ c # d /\ Done(c) /\ Done(d)
        /\ ctx[c].rq.dir = "WRITE" /\ AnyFailed(ctx[c].L.trace)
        /\ ctx[c].L.ret = "BLK_STS_OK"
        /\ ~IsFault(d) /\ Len(ctx[d].rq.segs) = 0 /\ ctx[d].L.ret = "BLK_STS_OK"

C18_CapacityImmutable == ramjam_pages = Cardinality(DOMAIN pages)

----------------------------------------------------------------------------
\* Claims about the copies of a block transfer.

\* The device byte offset at which segment j of the last transfer starts.
SegByte(j) == LastByte + SumLen(last.segs, j - 1)

\* C27: every copy of a block transfer into or out of a storage unit stays
\* inside the unit: intra-page offset + segment length <= PAGE_SIZE, for every
\* start position and every segment layout.
C27_CopyInsideUnit ==
    LastIsTransfer =>
        \A j \in 1..Len(last.trace) :
            last.trace[j].page # NULL
                => last.trace[j].off + last.trace[j].len <= PAGE_SIZE

\* C28: segment j of an in-range block transfer, which starts at device byte
\* b, is copied at page index b div PAGE_SIZE and intra-page offset
\* b mod PAGE_SIZE, whatever its bv_offset.
C28_ExactTranslation ==
    (LastIsTransfer /\ LastByte + last.len <= CapacityBytes) =>
        \A j \in 1..Len(last.trace) :
            /\ last.trace[j].pg = SegByte(j) \div PAGE_SIZE
            /\ last.trace[j].off = SegByte(j) % PAGE_SIZE

----------------------------------------------------------------------------
\* Claims about the page table's entries and the units behind them.

\* Offsets of unit u that the segments of a transfer were copied to.
Covered(trace, u) ==
    { k \in 0..(PAGE_SIZE - 1) :
        \E j \in DOMAIN trace :
            /\ trace[j].page = u
            /\ k >= trace[j].off /\ k < trace[j].off + trace[j].len }

\* C29: in every unit an operation allocates, by a block write or a fault,
\* each byte the operation does not write is zero.
C29_ZeroOnAlloc ==
    [][ \A u \in (Len(mem) + 1)..Len(mem') :
          \A k \in 0..(PAGE_SIZE - 1) :
             \/ last'.op = "WRITE" /\ k \in Covered(last'.trace, u)
             \/ mem'[u][k + 1] = 0 ]_vars

\* C29 witness: a block write allocated a unit and wrote only part of it; the
\* part it wrote holds the data, the rest is zero.
C29_Witness ==
    /\ last.op = "WRITE"
    /\ \E j \in DOMAIN last.trace :
          /\ last.trace[j].allocated
          /\ LET u == last.trace[j].page
             IN  /\ Covered(last.trace, u) # {}
                 /\ \A k \in Covered(last.trace, u) : mem[u][k + 1] # 0
                 /\ \E k \in 0..(PAGE_SIZE - 1) :
                       k \notin Covered(last.trace, u) /\ mem[u][k + 1] = 0

\* C30: an entry that holds a unit holds the same unit after every step: no
\* transfer, fault, failed allocation or munmap clears or replaces it.
C30_EntryStable ==
    [][ \A i \in DOMAIN pages : pages[i] # NULL => pages'[i] = pages[i] ]_vars

\* C30 witness: a block write copied into a unit its entry already held and
\* failed to allocate for another segment; the entry still holds the unit.
C30_Witness ==
    /\ last.op = "WRITE"
    /\ \E j \in DOMAIN last.trace, f \in DOMAIN last.trace :
          /\ last.trace[f].failed
          /\ last.trace[j].applied /\ ~last.trace[j].allocated
          /\ \A h \in DOMAIN last.trace : ~last.trace[h].allocated
          /\ pages[last.trace[j].pg] = last.trace[j].page

----------------------------------------------------------------------------
\* Claims about requests on the boundary of the device.

\* Context c runs a block transfer with no segments that starts at the end
\* of the device.
EmptyAtCapacity(c) ==
    /\ ctx[c].pc # "idle"
    /\ ~IsFault(c)
    /\ ctx[c].rq.segs = <<>>
    /\ ctx[c].rq.sector * SECTOR_SIZE = CapacityBytes

\* C26: a zero-length request at exactly capacity_bytes is accepted and
\* changes nothing: the mmap handlers return 0 for size 0 at offset
\* capacity_bytes, and no step of a block transfer with no segments at that
\* position changes a table entry or a stored byte, and it completes with
\* BLK_STS_OK.
C26_ZeroLengthAtCapacity ==
    /\ [](/\ ramjam_mmap(ramjam_pages, 0) = "0"
          /\ rramjam_mmap(ramjam_pages, 0) = "0")
    /\ [][ \A c \in 1..NumCtx :
             (EmptyAtCapacity(c) /\ ctx'[c] # ctx[c])
                => /\ pages' = pages /\ mem' = mem /\ refs' = refs
                   /\ ctx'[c].pc = "done" => ctx'[c].L.ret = "BLK_STS_OK" ]_vars

\* C26 witness: a write with no segments at the end of the device went
\* through blk_modern.c's handler and completed with BLK_STS_OK.
C26_Witness ==
    \E c \in 1..NumCtx :
        /\ variant = "modern"
        /\ EmptyAtCapacity(c) /\ Done(c)
        /\ ctx[c].rq.dir = "WRITE"
        /\ ctx[c].L.ret = "BLK_STS_OK"

----------------------------------------------------------------------------
\* Claims about teardown and the life of a unit.

\* Number of page-table entries that hold unit u.
TableRefs(u) == Cardinality({ i \in DOMAIN pages : pages[i] = u })
\* Number of pages of the mapping that have unit u installed.
MapRefs(u) == Cardinality({ k \in 1..vma.npages : vma.pte[k] = u })

\* C21: ramjam_exit drops the table's reference on every unit an entry
\* holds, once, and on nothing else.
C21_TeardownReleasesAll ==
    [][ (variant # "unloaded" /\ variant' = "unloaded")
        => \A u \in DOMAIN refs : refs'[u] = refs[u] - TableRefs(u) ]_vars

\* C22: a unit is free (use-count 0) only when no table entry and no page of
\* the mapping refers to it, and no use-count is released twice; this holds
\* through teardown with a mapping still in use.
C22_FreedOnlyUnreferenced ==
    \A u \in DOMAIN refs :
        /\ refs[u] >= 0
        /\ refs[u] = 0 => (TableRefs(u) = 0 /\ MapRefs(u) = 0)

\* C22 witness: the module is unloaded and a unit that a fault installed in
\* the mapping is still in use, kept by the mapping's reference alone.
C22_Witness ==
    /\ variant = "unloaded"
    /\ \E k \in 1..vma.npages :
          vma.pte[k] # NULL /\ refs[vma.pte[k]] = 1

----------------------------------------------------------------------------
\* Claims about the mapping endpoint over the life of several mappings.

\* The last operation loaded, through the mapping, the byte that the last
\* store through a mapping wrote.
LoadOfStored ==
    /\ last.op = "load"
    /\ prevW.kind = "map"
    /\ prevW.byte = last.byte
    /\ prevW.vm_pgoff = vma.pgoff

\* C23: a byte stored through a mapping is read back unchanged through the
\* same mapping, and a fault on a page whose entry is Allocated hands back
\* the unit the entry holds and changes no entry and no stored byte.
C23_MappingRoundTrip ==
    /\ []((LoadOfStored /\ prevW.map = nmaps) => last.data = prevW.data)
    /\ [][ (last'.op = "fault" /\ last' # last /\ last'.pgoff \in DOMAIN pages
               /\ pages[last'.pgoff] # NULL)
           => (last'.page = pages[last'.pgoff] /\ pages' = pages /\ mem' = mem) ]_vars

\* C23 witness: a byte stored through the second mapping of blk_modern.c's
\* store was loaded back through that mapping.
C23_Witness ==
    /\ LoadOfStored /\ prevW.map = nmaps
    /\ variant = "modern"
    /\ nmaps = MaxMaps
    /\ last.data = prevW.data

\* C24: munmap frees no unit and changes no table entry and no stored byte,
\* and a byte stored through one mapping is read back unchanged through a
\* later mapping of the same range.
C24_DataOutlivesMapping ==
    /\ []((LoadOfStored /\ prevW.map < nmaps) => last.data = prevW.data)
    /\ [][ (last'.op = "munmap" /\ vma # NoVma /\ vma' = NoVma)
           => /\ pages' = pages /\ mem' = mem
              /\ \A u \in DOMAIN refs : refs[u] > 0 => refs'[u] > 0 ]_vars

\* C24 witness: the byte loaded was stored through an earlier mapping, since
\* torn down, of a sparse store.
C24_Witness ==
    /\ LoadOfStored /\ prevW.map < nmaps
    /\ variant = "bio"
    /\ last.data = prevW.data

\* C25: every page installed in a mapping at offset vm_pgoff is the unit of
\* store page vm_pgoff + k, k counting the mapping's pages from 0, in every
\* variant.
C25_MappingOffset ==
    \A k \in 1..vma.npages :
        vma.pte[k] # NULL =>
            /\ vma.pgoff + k - 1 \in DOMAIN pages
            /\ vma.pte[k] = pages[vma.pgoff + k - 1]

----------------------------------------------------------------------------
\* Claims about the mutex.

\* Context c is inside a page-table critical section: a block transfer from
\* its first lookup to its unlock, a fault from its lookup to its hand-back.
InCS(c) ==
    ctx[c].pc \in {"lookup", "alloc", "copy", "unlock", "f_lookup", "f_alloc", "f_ret"}

\* C31: in the sparse variants at most one context is inside a page-table
\* critical section, a context inside one holds the mutex, and the mutex
\* leaves its holder only by the holder's own unlock at the end of the
\* transfer or fault.
C31_MutualExclusion ==
    /\ [](variant # "flat" =>
            /\ Cardinality({ c \in 1..NumCtx : InCS(c) }) <= 1
            /\ \A c \in 1..NumCtx : InCS(c) => mutex = c)
    /\ [][ \A c \in 1..NumCtx :
             (mutex = c /\ mutex' # c)
                => /\ ctx[c].pc \in {"unlock", "f_ret"}
                   /\ ctx'[c].pc \in {"end", "done"}
                   /\ mutex' = 0 ]_vars

\* C31 witness: a block write is at its second segment, holding the mutex,
\* while a fault waits for the mutex.
C31_Witness ==
    \E c \in 1..NumCtx, d \in 1..NumCtx :
        /\ c # d
        /\ ctx[c].pc = "copy" /\ ctx[c].i = 2 /\ ctx[c].rq.dir = "WRITE"
        /\ mutex = c
        /\ ctx[d].pc = "f_lock"

\* Context c is a fault that has reached mutex_lock and cannot take it.
FaultBlocked(c) == ctx[c].pc = "f_lock" /\ ~ENABLED FaultLock(c)

\* C32: a fault is never kept waiting at its mutex_lock by a fault on
\* another page index that is inside its critical section.
C32_DisjointFaultsProceed ==
    \A c \in 1..NumCtx, d \in 1..NumCtx :
        ( /\ c # d
          /\ ctx[c].pc = "f_lock"
          /\ InCS(d) /\ IsFault(d)
          /\ ctx[c].rq.pgoff < ramjam_pages /\ ctx[d].rq.pgoff < ramjam_pages
          /\ ctx[c].rq.pgoff # ctx[d].rq.pgoff )
        => ~FaultBlocked(c)

\* C34: the mutex is only ever held by a context inside a handler, no
\* handler returns holding it, whatever its result, and every transfer and
\* every fault that has entered its handler returns in the end.
C34_NoDeadlock ==
    /\ [](\A c \in 1..NumCtx : mutex = c => InHandler(c))
    /\ [][ \A c \in 1..NumCtx :
             (InHandler(c) /\ ctx'[c].pc = "done") => mutex' # c ]_vars
    /\ \A c \in 1..NumCtx : InHandler(c) ~> Done(c)

\* C34 witness: a fault that failed for want of memory has returned, a
\* handler that was entered while it ran has returned too, and the mutex is
\* free.
C34_Witness ==
    \E c \in 1..NumCtx, d \in 1..NumCtx :
        /\ c # d /\ FaultDone(c) /\ Done(d)
        /\ ctx[c].L.tried /\ ctx[c].L.ret # "0"
        /\ ctx[d].overlapped
        /\ mutex = 0

----------------------------------------------------------------------------
\* Claims about use-counts, one handler at a time.

\* C35: the use-count of the unit of an Allocated entry is 1 plus the number
\* of pages of the mapping the unit is installed in, and a block transfer
\* changes the use-count of no unit.
C35_UseCount ==
    /\ [](\A u \in DOMAIN refs :
             TableRefs(u) >= 1 => refs[u] = 1 + MapRefs(u))
    /\ [][ nops' = nops + 1
           => \A u \in DOMAIN refs : refs'[u] = refs[u] ]_vars

\* C35 witness: a block write has just copied into a unit that a fault had
\* installed in the mapping; the unit's count is 2.
C35_Witness ==
    /\ last.op = "WRITE"
    /\ \E j \in DOMAIN last.trace :
          /\ last.trace[j].applied
          /\ MapRefs(last.trace[j].page) = 1
          /\ refs[last.trace[j].page] = 2

----------------------------------------------------------------------------
\* Claims that compare two handlers.

\* ramjam_queue_rq and ramjam_submit_bio, run on the store as it stands with
\* the same transfer and every allocation successful, leave the same table
\* and unit contents and deliver the same bytes.
HandlersAgree(dir, sector, segs) ==
    LET rq == Request(dir, sector, segs)
        env == [fail |-> {}, adj |-> NULL, g |-> 0]
        M == queue_rq_loop([S |-> Store, L |-> Locals(sector, U32(sector * SECTOR_SIZE))],
                           rq, 1, env)
        B == submit_bio_loop([S |-> Store, L |-> Locals(sector, 0)], rq, 1, env)
    IN  /\ M.S.pages = B.S.pages
        /\ M.S.mem = B.S.mem
        /\ M.L.out = B.L.out

\* C36: from the same store, blk_modern.c's and blk_bio.c's block handlers
\* given the same in-capacity transfer end with equal tables and unit
\* contents and deliver equal bytes.
C36_HandlersEquivalent ==
    \A dir \in {"READ", "WRITE"}, sector \in StartSectors(PAGE_SIZE),
       segs \in SparseSegLists :
        ( /\ sector * SECTOR_SIZE + TotalLen(segs) <= CapacityBytes
          /\ ~Overruns(sector, segs) )
        => HandlersAgree(dir, sector, segs)

----------------------------------------------------------------------------
\* Claims about the flat-buffer variants.

\* dev->size of the flat variants.
FlatSize == Len(mem) * PAGE_SIZE

----------------------------------------------------------------------------
\* Claims about the width of the handlers' variables.

\* C33: for a transfer that starts inside the device, the page index the
\* handler computes for a first segment with bv_offset 0 is the start byte
\* divided by PAGE_SIZE, as unbounded integers.
C33_NoWrap ==
    ( /\ LastIsTransfer
      /\ Len(last.trace) >= 1
      /\ LastByte < CapacityBytes
      /\ last.segs[1].bv_offset = 0 )
    => last.trace[1].pg = LastByte \div PAGE_SIZE

----------------------------------------------------------------------------
\* The sparse store against the flat buffer on the block path.

\* mmap_fault.c ramjam_init: vmalloc_user hands out ramjam_pages zeroed pages.
FlatFresh ==
    [pages |-> [p \in 0..(ramjam_pages - 1) |-> p + 1],
     mem |-> [u \in 1..ramjam_pages |-> ZeroPage],
     refs |-> [u \in 1..ramjam_pages |-> 1]]

RECURSIVE flat_queue_rq_loop(_, _, _, _)
flat_queue_rq_loop(F, rq, i, g) ==
    IF i > Len(rq.segs) THEN F
    ELSE flat_queue_rq_loop(flat_queue_rq_segment(F, rq, i, g), rq, i + 1, g)

\* mmap_fault.c: ramjam_queue_rq, the whole handler, on flat store S.
flat_ramjam_queue_rq(S, rq) ==
    flat_queue_rq_loop([S |-> S, L |-> Locals(rq.sector, rq.sector * SECTOR_SIZE)],
                       rq, 1, 0)

\* The flat buffer after the block writes of this behaviour so far, while at
\* most one write has completed (prevW): the fresh buffer, or the fresh
\* buffer with that write applied sector by sector.
FlatTwin ==
    IF prevW.kind = "blk"
    THEN flat_ramjam_queue_rq(FlatFresh,
             [dir |-> "WRITE", sector |-> prevW.byte \div SECTOR_SIZE,
              segs |-> [i \in 1..(Len(prevW.data) \div SECTOR_SIZE) |->
                          [bv_offset |-> 0, bv_len |-> SECTOR_SIZE]],
              data |-> prevW.data]).S
    ELSE FlatFresh

\* The bytes mmap_fault.c's handler delivers for the read just completed.
FlatRead ==
    flat_ramjam_queue_rq(FlatTwin,
        [dir |-> "READ", sector |-> last.sector, segs |-> last.segs, data |-> <<>>]).L.out

\* C37: from fresh stores of equal capacity, an in-capacity read that
\* follows at most one in-capacity write whose allocations all succeeded
\* returns the same bytes from blk_modern.c's sparse store as from
\* mmap_fault.c's flat buffer.
C37_SparseMatchesFlat ==
    ( /\ variant = "modern"
      /\ last.op = "READ"
      /\ nops <= 2
      /\ LastByte + last.len <= CapacityBytes
      /\ prevW.kind = "blk" =>
            /\ prevW.clean
            /\ prevW.byte + Len(prevW.data) <= CapacityBytes )
    => last.data = FlatRead

----------------------------------------------------------------------------
\* Module load: ramjam_init, step by step, any step may fail.

\* The steps of ramjam_init in program order.  res is what the step acquires;
\* onfail is where the code goes when the step fails: "return" (leave at
\* once), "ignore" (the result is not tested) or a label of the function;
\* sets tells whether ret holds the error on that path; val is what the step
\* leaves in ret when it succeeds ("" when it does not assign ret).
InitStep(res, onfail, sets, val) ==
    [res |-> res, onfail |-> onfail, sets |-> sets, val |-> val]

\* blk_modern.c: ramjam_init
modern_init_steps ==
    << InitStep("pages", "return", TRUE, ""),
       InitStep("chr_region", "err_pages", TRUE, "0"),
       InitStep("class", "err_chr_region", TRUE, ""),
       InitStep("device", "ignore", FALSE, ""),
       InitStep("cdev", "ignore", FALSE, ""),
       InitStep("blkdev", "err_class", TRUE, ""),
       InitStep("tag_set", "err_blkdev", TRUE, "0"),
       InitStep("disk", "err_tag", TRUE, ""),
       InitStep("add_disk", "err_disk", TRUE, "0") >>

\* blk_bio.c: ramjam_init
bio_init_steps ==
    << InitStep("pages", "return", TRUE, ""),
       InitStep("chr_region", "out_free_pages", TRUE, "0"),
       InitStep("class", "out_unregister_chr", TRUE, ""),
       InitStep("cdev", "out_destroy_class", TRUE, "0"),
       InitStep("device", "out_cdev_del", TRUE, ""),
       InitStep("blkdev", "out_destroy_device", TRUE, "major"),
       InitStep("tag_set", "out_unregister_blk", TRUE, "0"),
       InitStep("disk", "out_free_tags", TRUE, ""),
       InitStep("add_disk", "out_put_disk", TRUE, "0") >>

\* mmap_fault.c and mmap_nofault.c: ramjam_init.  The failure of
\* alloc_chrdev_region jumps to err_disk without assigning ret.
flat_init_steps ==
    << InitStep("blkdev", "return", TRUE, ""),
       InitStep("buffer", "err_blkdev", TRUE, ""),
       InitStep("tag_set", "err_vm", TRUE, ""),
       InitStep("disk", "err_tag", TRUE, ""),
       InitStep("chr_region", "err_disk", FALSE, ""),
       InitStep("class", "ignore", FALSE, ""),
       InitStep("cdev", "ignore", FALSE, ""),
       InitStep("device", "ignore", FALSE, ""),
       InitStep("add_disk", "err_cdev", TRUE, "0") >>

\* The release statements after "return 0", in program order, each with the
\* label in front of it ("" when it has none).
Release(label, res) == [label |-> label, res |-> res]

\* blk_modern.c: err_disk .. err_pages
modern_init_unwind ==
    << Release("err_disk", "disk"), Release("err_tag", "tag_set"),
       Release("err_blkdev", "blkdev"), Release("err_class", "class"),
       Release("err_chr_region", "chr_region"), Release("err_pages", "pages") >>

\* blk_bio.c: out_put_disk .. out_free_pages
bio_init_unwind ==
    << Release("out_put_disk", "disk"), Release("out_free_tags", "tag_set"),
       Release("out_unregister_blk", "blkdev"), Release("out_destroy_device", "device"),
       Release("out_cdev_del", "cdev"), Release("out_destroy_class", "class"),
       Release("out_unregister_chr", "chr_region"), Release("out_free_pages", "pages") >>

\* mmap_fault.c and mmap_nofault.c: err_cdev .. err_blkdev
flat_init_unwind ==
    << Release("err_cdev", "device"), Release("", "class"), Release("", "cdev"),
       Release("", "chr_region"), Release("err_disk", "disk"),
       Release("err_tag", "tag_set"), Release("err_vm", "buffer"),
       Release("err_blkdev", "blkdev") >>

init_steps == CASE variant = "modern" -> modern_init_steps
                [] variant = "bio" -> bio_init_steps
                [] OTHER -> flat_init_steps

init_unwind == CASE variant = "modern" -> modern_init_unwind
                 [] variant = "bio" -> bio_init_unwind
                 [] OTHER -> flat_init_unwind

\* Position of a label among the release statements.
LabelAt(label) == CHOOSE k \in DOMAIN init_unwind : init_unwind[k].label = label

\* insmod before the first statement of ramjam_init: "int ret;" holds no value.
Insmod == [pc |-> "init", step |-> 1, lab |-> 0, held |-> <<>>, freed |-> <<>>,
           ret |-> "uninit", err |-> FALSE]

InitLoad ==
    /\ variant \in {"modern", "bio", "flat", "nofault"}
    /\ ramjam_pages = NumPages
    /\ pages = <<>>
    /\ mem = <<>>
    /\ refs = <<>>
    /\ vma = NoVma
    /\ nops = 0
    /\ nmaps = 0
    /\ nstores = 0
    /\ last = NoOp
    /\ prevW = NoWrite
    /\ touched = {}
    /\ mutex = 0
    /\ ctx = [c \in 1..NumCtx |-> IF c = 1 THEN Insmod ELSE Idle]

\* vcalloc / vmalloc_user and vfree: the store comes and goes with them.
StoreAfter(res, acquired) ==
    CASE res = "pages" /\ acquired ->
           [pages |-> [p \in 0..(ramjam_pages - 1) |-> NULL], mem |-> <<>>, refs |-> <<>>]
      [] res = "buffer" /\ acquired -> FlatFresh
      [] res \in {"pages", "buffer"} /\ ~acquired ->
           [pages |-> <<>>, mem |-> <<>>, refs |-> <<>>]
      [] OTHER -> Store

\* One step of ramjam_init; ok tells whether the call succeeds.
ramjam_init_step(ok) ==
    LET me == ctx[1]
        st == init_steps[me.step]
    IN  /\ me.pc = "init"
        /\ ctx' = [ctx EXCEPT ![1] =
              IF ok
              THEN [me EXCEPT !.held = Append(@, st.res),
                              !.step = @ + 1,
                              !.ret = IF st.val # "" THEN st.val ELSE @,
                              !.pc = IF me.step = Len(init_steps) THEN "loaded" ELSE "init"]
              ELSE IF st.onfail = "ignore"
              THEN [me EXCEPT !.step = @ + 1, !.err = TRUE]
              ELSE IF st.onfail = "return"
              THEN [me EXCEPT !.pc = "returned", !.ret = "err", !.err = TRUE]
              ELSE [me EXCEPT !.pc = "unwind", !.lab = LabelAt(st.onfail),
                              !.ret = IF st.sets THEN "err" ELSE @, !.err = TRUE]]
        /\ LET S == StoreAfter(st.res, ok)
           IN  IF ok THEN pages' = S.pages /\ mem' = S.mem /\ refs' = S.refs
               ELSE UNCHANGED <<pages, mem, refs>>
        /\ UNCHANGED <<variant, ramjam_pages, vma, nops, nmaps, nstores, last, prevW,
                       touched, mutex>>

\* One release statement of the unwinding code.
ramjam_init_unwind ==
    LET me == ctx[1]
    IN  /\ me.pc = "unwind"
        /\ me.lab <= Len(init_unwind)
        /\ ctx' = [ctx EXCEPT ![1] = [me EXCEPT !.freed = Append(@, init_unwind[me.lab].res),
                                                !.lab = @ + 1]]
        /\ LET S == StoreAfter(init_unwind[me.lab].res, FALSE)
           IN  pages' = S.pages /\ mem' = S.mem /\ refs' = S.refs
        /\ UNCHANGED <<variant, ramjam_pages, vma, nops, nmaps, nstores, last, prevW,
                       touched, mutex>>

\* "return ret;" after the last release.  A ret that was never assigned has
\* an indeterminate value: v is what the caller gets to see.
ramjam_init_return(v) ==
    LET me == ctx[1]
    IN  /\ me.pc = "unwind"
        /\ me.lab > Len(init_unwind)
        /\ ctx' = [ctx EXCEPT ![1] = [me EXCEPT !.pc = "returned",
                                                !.ret = IF @ = "uninit" THEN v ELSE @]]
        /\ UNCHANGED <<variant, ramjam_pages, pages, mem, refs, vma, nops, nmaps,
                       nstores, last, prevW, touched, mutex>>

NextInit ==
    \/ \E ok \in BOOLEAN : ramjam_init_step(ok)
    \/ ramjam_init_unwind
    \/ \E v \in {"0", "err"} : ramjam_init_return(v)

\* insmod of each variant.
SpecInit == InitLoad /\ [][NextInit]_vars

Reverse(s) == [i \in 1..Len(s) |-> s[Len(s) + 1 - i]]

\* C39: when a step of ramjam_init has failed and init has returned, what was
\* released is what was acquired, each once and in reverse order of
\* acquisition, and the return value is nonzero.
C39_InitUnwinds ==
    (ctx[1].pc \in {"returned", "loaded"} /\ ctx[1].err)
    => /\ ctx[1].freed = Reverse(ctx[1].held)
       /\ ctx[1].ret \notin {"0", "uninit"}

====
